---- MODULE Spec2Model ----
(***************************************************************************)
(* yase (src/yase/__main__.py): a bucket-name enumerator.                  *)
(*                                                                         *)
(* Two state machines live in this module.                                 *)
(*   Spec     main() driving bounded_as_completed over the probes of a     *)
(*            list of distinct candidate names: the window (futures), the  *)
(*            pending stream (coros), the probes' network responses, the   *)
(*            outcomes handed to main and the printed lines.               *)
(*   GenSpec  generate_buckets piped through unique_everseen, run one      *)
(*            element at a time over small targets and wordlists.          *)
(* asyncio is single-threaded: a task can only make progress while the     *)
(* main task is suspended in `await asyncio.sleep(0)` (line 75), so the    *)
(* probes complete only in the state pc = "sleep".                         *)
(***************************************************************************)
EXTENDS Integers, Sequences, FiniteSets

VARIABLES
    pc,          \* where main() is: "init", "loop", "sleep", "report", "done", "aborted", "gen"
    bound,       \* the bound argument of bounded_as_completed (--bound)
    names,       \* the candidate names main() fans out to the providers
    coros,       \* the pending stream: operations not yet pulled
    futures,     \* the window: the list `futures` of bounded_as_completed
    res,         \* the value main() got from `await res` (line 116)
    printed,     \* the lines printed so far (line 118)
    ready,       \* history: the operations whose tasks completed and were not yet
                 \* handed to main(), in the order they completed
    yielded,     \* history: the outcomes handed to main(), in order
    started,     \* history: the operations asyncio.ensure_future was called on
                 \* (lines 69 and 80-81), in the order of the calls
    target,      \* GenSpec: the target string
    prefixes,    \* GenSpec: the prefix wordlist
    modifiers,   \* GenSpec: the modifier wordlist
    raw,         \* GenSpec: what generate_buckets has still to yield
    seen,        \* GenSpec: the set `seen` of unique_everseen
    out          \* GenSpec: what unique_everseen has yielded so far

vars == <<pc, bound, names, coros, futures, res, printed, ready, yielded, started,
          target, prefixes, modifiers, raw, seen, out>>

schedVars == <<pc, bound, names, coros, futures, res, printed, ready, yielded,
               started>>
genVars == <<target, prefixes, modifiers, raw, seen, out>>

(***************************************************************************)
(* Bounds of the model.                                                    *)
(***************************************************************************)
MaxCands == 2      \* at most this many distinct candidate names in Spec
MaxBound == 3      \* --bound ranges over 0..MaxBound in Spec

Min(a, b) == IF a < b THEN a ELSE b

(***************************************************************************)
(* Values.  A string is a sequence of characters or of chunks; None is the *)
(* empty value, which `if result:` (line 117) takes for false.             *)
(***************************************************************************)
None == <<>>

S3_NOT_FOUND_INDICATION == "s3-directional"

\* a DNS answer's canonical name, as a sequence of chunks
CNames == { <<"s3-directional", "-w.amazonaws.com">>,
            <<"s3-1", "-w.amazonaws.com">>,
            <<"s3-w.", "s3-directional", ".amazonaws.com">> }

\* what resolver.query can do (line 29): answer, or raise aiodns.error.DNSError
DNSResponses ==
    { [kind |-> "answer", cname |-> c, status |-> 0] : c \in CNames }
    \cup { [kind |-> "DNSError", cname |-> <<>>, status |-> 0] }

\* what session.head can do (line 19): respond with a status, raise an
\* aiohttp.ClientError, or raise asyncio.TimeoutError (the session's total
\* timeout), which is not an aiohttp.ClientError
Statuses == {200, 400, 404, 500}
HTTPResponses ==
    { [kind |-> "response", cname |-> <<>>, status |-> s] : s \in Statuses }
    \cup { [kind |-> "ClientError", cname |-> <<>>, status |-> 0],
           [kind |-> "TimeoutError", cname |-> <<>>, status |-> 0] }

NoResponse == [kind |-> "pending", cname |-> <<>>, status |-> 0]

\* the result of a task: a returned value, or a raised exception
Return(v) == [how |-> "return", value |-> v]
Raise(e) == [how |-> "raise", value |-> <<e>>]
NoResult == [how |-> "pending", value |-> <<>>]

\* `S3_NOT_FOUND_INDICATION in result.cname`: the marker occurs somewhere
Contains(cname, marker) == \E i \in 1..Len(cname) : cname[i] = marker

\* fetch_bucket_s3 (lines 27-34)
fetch_bucket_s3(bucket_name, r) ==
    IF r.kind = "answer"
    THEN IF Contains(r.cname, S3_NOT_FOUND_INDICATION)
         THEN Return(None)
         ELSE Return(<<"s3://", bucket_name>>)
    ELSE IF r.kind = "DNSError" THEN Return(None)
    ELSE Raise(r.kind)

\* a slip: only 404 is taken for "no such bucket"
fetch_bucket_gcp_only404(bucket_name, r) ==
    IF r.kind = "response"
    THEN IF r.status = 404
         THEN Return(None)
         ELSE Return(<<"gs://", bucket_name>>)
    ELSE IF r.kind = "ClientError" THEN Return(None)
    ELSE Raise(r.kind)

\* fetch_bucket_gcp (lines 17-24)
fetch_bucket_gcp(bucket_name, r) ==
    IF r.kind = "response"
    THEN IF r.status \in {400, 404}
         THEN Return(None)
         ELSE Return(<<"gs://", bucket_name>>)
    ELSE IF r.kind = "ClientError" THEN Return(None)
    ELSE Raise(r.kind)

\* an operation of the pending stream: a coroutine object not yet started
Op(n, p) == [name |-> n, provider |-> p]

Responses(op) == IF op.provider = "s3" THEN DNSResponses ELSE HTTPResponses

RunProbe(op, r) ==
    IF op.provider = "s3" THEN fetch_bucket_s3(op.name, r)
                          ELSE fetch_bucket_gcp(op.name, r)

\* a slip: the providers are taken in the other order, GCS before S3
RECURSIVE ChainGcpFirst(_)
ChainGcpFirst(ns) ==
    IF ns = <<>> THEN <<>>
    ELSE <<Op(Head(ns), "gcp"), Op(Head(ns), "s3")>> \o ChainGcpFirst(Tail(ns))

\* itertools.chain.from_iterable((fetch_bucket_s3(name), fetch_bucket_gcp(name))
\*                               for name in ...)            (lines 110-113)
RECURSIVE Chain(_)
Chain(ns) ==
    IF ns = <<>> THEN <<>>
    ELSE <<Op(Head(ns), "s3"), Op(Head(ns), "gcp")>> \o Chain(Tail(ns))

\* asyncio.ensure_future(c): a task that has not completed
Task(op) == [op |-> op, done |-> FALSE, resp |-> NoResponse, result |-> NoResult]

\* itertools.islice(coros, 0, bound) (line 70): the first `bound` operations
Islice(cs, b) == SubSeq(cs, 1, Min(b, Len(cs)))
Rest(cs, b) == SubSeq(cs, Min(b, Len(cs)) + 1, Len(cs))

\* a slip in the slice: one operation too many is started
InitialFillOneMore(cs, b) ==
    [i \in 1..Len(Islice(cs, b + 1)) |-> Task(Islice(cs, b + 1)[i])]

\* lines 68-71: the window after the initial fill
InitialFill(cs, b) == [i \in 1..Len(Islice(cs, b)) |-> Task(Islice(cs, b)[i])]

\* a slip: the first task of the list is removed, whichever was found done
RemoveFirst(fs, i) == Tail(fs)

\* the list without its element at position i (futures.remove(f), line 78)
Remove(fs, i) == SubSeq(fs, 1, i - 1) \o SubSeq(fs, i + 1, Len(fs))

\* a slip: the operation pulled from the stream is never started
RefillDropped(fs, cs) == fs

\* lines 79-84: the window after trying to pull one operation from the stream
Refill(fs, cs) == IF cs = <<>> THEN fs ELSE Append(fs, Task(Head(cs)))

\* lines 76-77: the first task of the list that is done (0 when none is)
FirstDone(fs) ==
    IF \E i \in 1..Len(fs) : fs[i].done
    THEN CHOOSE i \in 1..Len(fs) : fs[i].done /\ \A j \in 1..(i - 1) : ~fs[j].done
    ELSE 0

\* a slip: every result is printed, None too
PrintResultAlways(lines, result) == Append(lines, result)

\* lines 117-118: `if result: print(result)`
PrintResult(lines, result) == IF result # None THEN Append(lines, result) ELSE lines

(***************************************************************************)
(* Spec: main() over bounded_as_completed.                                 *)
(***************************************************************************)
NameSeqs == { [i \in 1..k |-> i] : k \in 1..MaxCands }

GenIdle ==
    /\ target = <<>> /\ prefixes = <<>> /\ modifiers = <<>>
    /\ raw = <<>> /\ seen = {} /\ out = <<>>

Init ==
    /\ pc = "init"
    /\ bound \in 0..MaxBound
    /\ names \in NameSeqs
    /\ coros = Chain(names)
    /\ futures = <<>>
    /\ res = None
    /\ printed = <<>>
    /\ ready = <<>>
    /\ yielded = <<>>
    /\ started = <<>>
    /\ GenIdle

\* the first next() on the generator: lines 68-71
Start ==
    /\ pc = "init"
    /\ futures' = InitialFill(coros, bound)
    /\ coros' = Rest(coros, bound)
    /\ started' = [i \in 1..Len(futures') |-> futures'[i].op]
    /\ pc' = "loop"
    /\ UNCHANGED <<bound, names, res, printed, ready, yielded>>
    /\ UNCHANGED genVars

\* lines 86-87 and 109, 116, 74-75: the generator yields first_to_finish(),
\* main() awaits it and it suspends in sleep(0); or the generator is over
NextOutcome ==
    /\ pc = "loop"
    /\ pc' = IF Len(futures) > 0 THEN "sleep" ELSE "done"
    /\ UNCHANGED <<bound, names, coros, futures, res, printed, ready, yielded, started>>
    /\ UNCHANGED genVars

\* a task of the window completes while main() is suspended (lines 17-34)
Complete(i, r) ==
    /\ pc = "sleep"
    /\ i \in 1..Len(futures)
    /\ ~futures[i].done
    /\ r \in Responses(futures[i].op)
    /\ futures' = [futures EXCEPT ![i] =
                      [op |-> @.op, done |-> TRUE, resp |-> r,
                       result |-> RunProbe(@.op, r)]]
    /\ ready' = Append(ready, futures[i].op)
    /\ UNCHANGED <<pc, bound, names, coros, res, printed, yielded, started>>
    /\ UNCHANGED genVars

\* lines 76-85: the scan finds a done task, removes it, refills the window
\* and returns the task's result, or re-raises what the task raised
FirstToFinish ==
    /\ pc = "sleep"
    /\ FirstDone(futures) # 0
    /\ LET i == FirstDone(futures)
           f == futures[i]
       IN /\ futures' = Refill(Remove(futures, i), coros)
          /\ coros' = IF coros = <<>> THEN coros ELSE Tail(coros)
          /\ started' = IF Len(futures') > Len(Remove(futures, i))
                         THEN Append(started, futures'[Len(futures')].op)
                         ELSE started
          /\ IF f.result.how = "raise"
             THEN /\ pc' = "aborted"
                  /\ UNCHANGED <<res, yielded>>
             ELSE /\ pc' = "report"
                  /\ res' = f.result.value
                  /\ yielded' = Append(yielded, [op |-> f.op, value |-> f.result.value,
                                                   done |-> f.done])
          /\ ready' = SelectSeq(ready, LAMBDA o : o # f.op)
    /\ UNCHANGED <<bound, names, printed>>
    /\ UNCHANGED genVars

\* lines 116-118: main() prints a result that is not None
Report ==
    /\ pc = "report"
    /\ printed' = PrintResult(printed, res)
    /\ pc' = "loop"
    /\ UNCHANGED <<bound, names, coros, futures, res, ready, yielded, started>>
    /\ UNCHANGED genVars

Next ==
    \/ Start
    \/ NextOutcome
    \/ \E i \in 1..MaxBound, r \in DNSResponses \cup HTTPResponses : Complete(i, r)
    \/ FirstToFinish
    \/ Report

Spec == Init /\ [][Next]_vars

\* main() keeps awaiting: every step of main() and of the generator that can
\* be taken is taken.  Nothing makes a probe complete: no fairness on Complete.
FairSpec ==
    /\ Spec
    /\ WF_vars(Start)
    /\ WF_vars(NextOutcome)
    /\ WF_vars(FirstToFinish)
    /\ WF_vars(Report)

(***************************************************************************)
(* GenSpec: generate_buckets piped through unique_everseen (line 112).     *)
(* A string is a sequence of characters; an f-string is a concatenation.   *)
(***************************************************************************)
MaxPrefixes == 2    \* the prefix wordlist has at most this many lines
MaxModifiers == 2   \* the modifier wordlist has at most this many lines

Targets == { <<"a">> }
\* a wordlist line; a blank line of the file is the empty string
Words == { <<>>, <<"a">>, <<"b">> }

Lists(S, n) == UNION { [1..k -> S] : k \in 0..n }

\* a slip: the last form repeats `{target}{prefix}` instead of `{prefix}{target}`
prefix_permutations_slip(t, p, ms) ==
    << t \o <<".">> \o p,
       t \o <<"-">> \o p,
       t \o p,
       p \o <<".">> \o t,
       p \o <<"-">> \o t,
       t \o p >>

\* prefix_permutations (lines 37-43)
prefix_permutations(t, p, ms) ==
    << t \o <<".">> \o p,
       t \o <<"-">> \o p,
       t \o p,
       p \o <<".">> \o t,
       p \o <<"-">> \o t,
       p \o t >>

\* the ten strings mod_permutations yields for one modifier (lines 48-57)
ModForms(t, p, mod) ==
    << t \o <<"-">> \o p \o <<"-">> \o mod,
       t \o <<"-">> \o mod \o <<"-">> \o p,
       t \o <<".">> \o p \o <<".">> \o mod,
       t \o <<".">> \o mod \o <<".">> \o p,
       t \o <<".">> \o p \o <<"-">> \o mod,
       t \o <<".">> \o mod \o <<"-">> \o p,
       t \o <<"-">> \o p \o <<".">> \o mod,
       t \o <<"-">> \o mod \o <<".">> \o p,
       t \o <<"-">> \o p \o mod,
       t \o <<"-">> \o mod \o p >>

\* mod_permutations (lines 46-57)
RECURSIVE mod_permutations(_, _, _)
mod_permutations(t, p, ms) ==
    IF ms = <<>> THEN <<>>
    ELSE ModForms(t, p, Head(ms)) \o mod_permutations(t, p, Tail(ms))

\* a slip: the two `yield from` lines swapped
RECURSIVE ForPrefixesSwapped(_, _, _)
ForPrefixesSwapped(t, ps, ms) ==
    IF ps = <<>> THEN <<>>
    ELSE prefix_permutations(t, Head(ps), ms)
         \o mod_permutations(t, Head(ps), ms)
         \o ForPrefixesSwapped(t, Tail(ps), ms)

\* the loop of generate_buckets (lines 62-64)
RECURSIVE ForPrefixes(_, _, _)
ForPrefixes(t, ps, ms) ==
    IF ps = <<>> THEN <<>>
    ELSE mod_permutations(t, Head(ps), ms)
         \o prefix_permutations(t, Head(ps), ms)
         \o ForPrefixes(t, Tail(ps), ms)

\* a slip: the target itself is not yielded
generate_buckets_no_target(t, ps, ms) == ForPrefixes(t, ps, ms)

\* generate_buckets (lines 60-64)
generate_buckets(t, ps, ms) == <<t>> \o ForPrefixes(t, ps, ms)

\* a slip: only a repeat of the element yielded last is dropped
IsSeenJustNow(s, element) == out # <<>> /\ element = out[Len(out)]

\* seen.__contains__ (line 97)
IsSeen(s, element) == element \in s

SchedIdle ==
    /\ bound = 0 /\ names = <<>> /\ coros = <<>> /\ futures = <<>>
    /\ res = None /\ printed = <<>> /\ ready = <<>> /\ yielded = <<>>
    /\ started = <<>>

GenInit ==
    /\ pc = "gen"
    /\ target \in Targets
    /\ prefixes \in Lists(Words, MaxPrefixes)
    /\ modifiers \in Lists(Words, MaxModifiers)
    /\ raw = generate_buckets(target, prefixes, modifiers)
    /\ seen = {}
    /\ out = <<>>
    /\ SchedIdle

\* unique_everseen, key=None (lines 97-99): an element not seen is yielded
UniqueYield ==
    /\ pc = "gen"
    /\ raw # <<>>
    /\ ~IsSeen(seen, Head(raw))
    /\ seen' = seen \cup {Head(raw)}
    /\ out' = Append(out, Head(raw))
    /\ raw' = Tail(raw)
    /\ UNCHANGED <<target, prefixes, modifiers>>
    /\ UNCHANGED schedVars

\* unique_everseen, key=None (line 97): filterfalse drops an element seen
UniqueSkip ==
    /\ pc = "gen"
    /\ raw # <<>>
    /\ IsSeen(seen, Head(raw))
    /\ raw' = Tail(raw)
    /\ UNCHANGED <<target, prefixes, modifiers, seen, out>>
    /\ UNCHANGED schedVars

GenNext == UniqueYield \/ UniqueSkip

GenSpec == GenInit /\ [][GenNext]_vars

(***************************************************************************)
(* Properties of Spec (the scheduler, the providers and the reporter).     *)
(***************************************************************************)
AllOps == Chain(names)
N == Len(AllOps)
Ended == pc \in {"done", "aborted"}
Range(s) == { s[i] : i \in 1..Len(s) }

\* C1: the window never holds more than `bound` tasks (nor fewer than 0),
\* whatever the bound >= 0, the stream and the order of completions.
C1_WindowWithinBound == 0 <= Len(futures) /\ Len(futures) <= bound

\* C1 witness: a full window of two or more tasks, after an outcome has been
\* handed over and with a completed task waiting in it.
C1_Witness ==
    /\ pc = "sleep" /\ bound >= 2 /\ Len(futures) = bound
    /\ yielded # <<>>
    /\ \E i \in 1..Len(futures) : futures[i].done

\* C2: once the scheduler has started, the window holds fewer than `bound`
\* tasks only if the pending stream is exhausted; so a completion observed
\* while the stream has operations leaves the window refilled.
C2_WindowKeptFull ==
    pc \notin {"init", "gen"} => (Len(futures) < bound => coros = <<>>)

\* C2 witness: an outcome has just been handed over, the stream still has
\* operations, and the window is full again, its last task being an
\* operation that was not part of the initial fill.
C2_Witness ==
    /\ pc = "report" /\ bound >= 1 /\ coros # <<>>
    /\ Len(futures) = bound
    /\ futures[Len(futures)].op \notin Range(Islice(AllOps, bound))

\* C3: with bound < N, a run that has ended has ended normally and has
\* yielded exactly N outcomes.
C3_Claim == (bound < N /\ Ended) => (pc = "done" /\ Len(yielded) = N)

\* C4: every outcome yielded is the result of one operation of the stream
\* whose task had completed, no operation's outcome is yielded twice, and
\* once the run has ended there are as many outcomes as operations.
C4_Claim ==
    /\ \A i \in 1..Len(yielded) :
          /\ yielded[i].done
          /\ yielded[i].op \in Range(AllOps)
          /\ yielded[i].op \notin Range(coros)
    /\ \A i, j \in 1..Len(yielded) : yielded[i].op = yielded[j].op => i = j
    /\ Ended => Len(yielded) = N

\* C5: outcomes are yielded in completion order: the outcome handed to
\* main() is that of the task that completed first among the tasks whose
\* outcome has not been handed over yet.
C5_Claim ==
    [][Len(yielded') > Len(yielded) => yielded'[Len(yielded')].op = Head(ready)]_vars

\* C6: the run has ended only if the stream is exhausted and the window is
\* empty.
C6_Claim == Ended => (coros = <<>> /\ futures = <<>>)

\* the transport failures of C7 that reach the provider as an exception
TransportFailure(r) == r.kind \in {"DNSError", "ClientError", "TimeoutError"}

\* C7: a transport failure inside a probe becomes the outcome NotFound and
\* never leaves the provider as an exception, and the run is never aborted.
C7_Claim ==
    /\ pc # "aborted"
    /\ \A i \in 1..Len(futures) :
          (futures[i].done /\ TransportFailure(futures[i].resp))
             => futures[i].result = Return(None)

\* what C8 says the provider of op makes of response r (None is NotFound);
\* it says nothing of an exception that is no DNSError or client error
C8_Says(op, r) ==
    IF op.provider = "s3"
    THEN CASE r.kind = "answer" /\ Contains(r.cname, S3_NOT_FOUND_INDICATION)
                -> {Return(None)}
           [] r.kind = "answer" /\ ~Contains(r.cname, S3_NOT_FOUND_INDICATION)
                -> {Return(<<"s3://", op.name>>)}
           [] r.kind = "DNSError" -> {Return(None)}
           [] OTHER -> {}
    ELSE CASE r.kind = "response" /\ r.status \in {400, 404} -> {Return(None)}
           [] r.kind = "response" /\ r.status \notin {400, 404}
                -> {Return(<<"gs://", op.name>>)}
           [] r.kind = "ClientError" -> {Return(None)}
           [] OTHER -> {}

\* C8: every completed probe has the outcome the provider mapping gives for
\* the response it got.
C8_ProviderMapping ==
    \A i \in 1..Len(futures) :
        futures[i].done =>
            \A v \in C8_Says(futures[i].op, futures[i].resp) : futures[i].result = v

\* C8 witness: the window holds at once a DNS probe answered with a CNAME
\* without the marker, which came out Found, and an HTTP probe answered 400,
\* which came out NotFound.
C8_Witness ==
    \E i, j \in 1..Len(futures) :
        /\ futures[i].done /\ futures[j].done
        /\ futures[i].resp.kind = "answer"
        /\ ~Contains(futures[i].resp.cname, S3_NOT_FOUND_INDICATION)
        /\ futures[i].result = Return(<<"s3://", futures[i].op.name>>)
        /\ futures[j].resp.kind = "response" /\ futures[j].resp.status = 400
        /\ futures[j].result = Return(None)

\* the Found URIs among the outcomes, in order
FoundURIs(ys) == [i \in 1..Len(SelectSeq(ys, LAMBDA y : y.value # None))
                    |-> SelectSeq(ys, LAMBDA y : y.value # None)[i].value]
Front(s) == SubSeq(s, 1, Len(s) - 1)

\* C9: the printed lines are exactly the Found URIs of the outcomes yielded,
\* each once, in the order yielded; NotFound prints nothing; an outcome is
\* printed before the next one is requested (only in "report" is the last
\* outcome not printed yet).
C9_ReporterPrintsFound ==
    /\ pc \in {"loop", "sleep", "done", "aborted"} => printed = FoundURIs(yielded)
    /\ pc = "report" =>
          /\ yielded # <<>> /\ res = yielded[Len(yielded)].value
          /\ printed = FoundURIs(Front(yielded))
    /\ \A i, j \in 1..Len(printed) : printed[i] = printed[j] => i = j
    /\ \A i \in 1..Len(printed) :
          \E op \in Range(AllOps) :
              printed[i] = <<(IF op.provider = "s3" THEN "s3://" ELSE "gs://"), op.name>>

\* C9 witness: a completed run in which the DNS probe of the second
\* candidate was the only positive one, and the output is exactly its URI.
C9_Witness ==
    /\ pc = "done" /\ Len(yielded) = N /\ N = 4
    /\ \A i \in 1..Len(yielded) :
          (yielded[i].value # None) <=> (yielded[i].op = Op(2, "s3"))
    /\ printed = << <<"s3://", 2>> >>

(***************************************************************************)
(* Properties of GenSpec (the candidate generator).                        *)
(***************************************************************************)
Full == generate_buckets(target, prefixes, modifiers)
\* what unique_everseen has consumed of the raw sequence so far
Consumed == SubSeq(Full, 1, Len(Full) - Len(raw))

\* the positions of s that hold the first occurrence of their element
FirstPositions(s) == { i \in 1..Len(s) : \A j \in 1..(i - 1) : s[j] # s[i] }

\* s is the subsequence of t at the positions P, in order
IsSubsequenceAt(s, t, P) ==
    /\ Len(s) = Cardinality(P)
    /\ \A i \in 1..Len(s) :
          \E p \in P : /\ s[i] = t[p]
                       /\ Cardinality({ q \in P : q < p }) = i - 1

\* C10: the candidates fed to the scheduler hold no two equal strings, and
\* they are the raw sequence's first occurrences, in the raw order.
C10_Dedup ==
    pc = "gen" =>
        /\ \A i, j \in 1..Len(out) : out[i] = out[j] => i = j
        /\ IsSubsequenceAt(out, Consumed, FirstPositions(Consumed))

\* C10 witness: the whole raw sequence is consumed, a repeat was dropped
\* between two candidates that were kept, and a string came up three times.
C10_Witness ==
    /\ pc = "gen" /\ raw = <<>>
    /\ Len(out) < Len(Full) /\ Len(out) >= 4
    /\ \E i, j, k \in 1..Len(Full) :
          /\ i < j /\ j < k
          /\ Full[i] = Full[j] /\ j \notin FirstPositions(Full)
          /\ k \in FirstPositions(Full)
    /\ \E i, j, k \in 1..Len(Full) :
          i < j /\ j < k /\ Full[i] = Full[j] /\ Full[j] = Full[k]

\* the first occurrences of s, in order
FirstOccurrences(s) ==
    LET keep == { i \in 1..Len(s) : \A j \in 1..(i - 1) : s[j] # s[i] }
        nth(k) == CHOOSE i \in keep : Cardinality({ q \in keep : q < i }) = k - 1
    IN [k \in 1..Cardinality(keep) |-> s[nth(k)]]

\* o is the first occurrences of s, in order
IsFirstOccurrences(o, s) ==
    LET keep == { i \in 1..Len(s) : \A j \in 1..(i - 1) : s[j] # s[i] }
    IN /\ Len(o) = Cardinality(keep)
       /\ \A i \in keep : o[Cardinality({ q \in keep : q <= i })] = s[i]

\* the generator runs over the raw sequence S: what is left to yield is the
\* end of S, and the candidates are the first occurrences of the rest
OutFollows(S) ==
    /\ Len(raw) <= Len(S)
    /\ raw = SubSeq(S, Len(S) - Len(raw) + 1, Len(S))
    /\ IsFirstOccurrences(out, SubSeq(S, 1, Len(S) - Len(raw)))

Dot == <<".">>
Dash == <<"-">>

\* the k-th two-part form of t and p: t.p, t-p, tp, p.t, p-t, pt
TwoPart(t, p, k) ==
    CASE k = 1 -> t \o Dot \o p
      [] k = 2 -> t \o Dash \o p
      [] k = 3 -> t \o p
      [] k = 4 -> p \o Dot \o t
      [] k = 5 -> p \o Dash \o t
      [] k = 6 -> p \o t

\* the k-th three-part form of t, p and m:
\* t-p-m, t-m-p, t.p.m, t.m.p, t.p-m, t.m-p, t-p.m, t-m.p, t-pm, t-mp
ThreePart(t, p, m, k) ==
    CASE k = 1 -> t \o Dash \o p \o Dash \o m
      [] k = 2 -> t \o Dash \o m \o Dash \o p
      [] k = 3 -> t \o Dot \o p \o Dot \o m
      [] k = 4 -> t \o Dot \o m \o Dot \o p
      [] k = 5 -> t \o Dot \o p \o Dash \o m
      [] k = 6 -> t \o Dot \o m \o Dash \o p
      [] k = 7 -> t \o Dash \o p \o Dot \o m
      [] k = 8 -> t \o Dash \o m \o Dot \o p
      [] k = 9 -> t \o Dash \o p \o m
      [] k = 10 -> t \o Dash \o m \o p

NP == Len(prefixes)
NM == Len(modifiers)

\* the order C11 states: the target, the two-part forms of every prefix,
\* and after those the three-part forms (prefix outer, modifier inner)
ClaimedOrder ==
    [i \in 1..(1 + 6 * NP + 10 * NP * NM) |->
        IF i = 1 THEN target
        ELSE IF i <= 1 + 6 * NP
        THEN TwoPart(target, prefixes[((i - 2) \div 6) + 1], ((i - 2) % 6) + 1)
        ELSE LET x == i - 2 - 6 * NP
             IN ThreePart(target, prefixes[(x \div (10 * NM)) + 1],
                          modifiers[((x % (10 * NM)) \div 10) + 1], (x % 10) + 1)]

\* the order of the code: the target, then prefix by prefix the three-part
\* forms of the prefix (modifier by modifier) followed by its two-part forms
BlockOrder ==
    [i \in 1..(1 + NP * (10 * NM + 6)) |->
        IF i = 1 THEN target
        ELSE LET x == (i - 2) % (10 * NM + 6)
                 p == prefixes[((i - 2) \div (10 * NM + 6)) + 1]
             IN IF x < 10 * NM
                THEN ThreePart(target, p, modifiers[(x \div 10) + 1], (x % 10) + 1)
                ELSE TwoPart(target, p, x - 10 * NM + 1)]

\* C11 (as stated): the candidates come in the order target, two-part forms
\* of all prefixes, then three-part forms.
C11_Claim == (pc = "gen" /\ raw = <<>>) => out = FirstOccurrences(ClaimedOrder)

\* C11 (amended): the candidates are the first occurrences of: the target,
\* then for each prefix in wordlist order the ten three-part forms of each
\* modifier in wordlist order, followed by the prefix's six two-part forms.
C11_BlockOrder == pc = "gen" => OutFollows(BlockOrder)

\* C11 witness: two prefixes and a modifier, no blank line; the second
\* candidate is a three-part form and the first prefix's two-part forms come
\* before the second prefix's three-part forms.
C11_Witness ==
    /\ pc = "gen" /\ raw = <<>>
    /\ NP = 2 /\ NM >= 1
    /\ prefixes[1] # <<>> /\ prefixes[2] # <<>> /\ modifiers[1] # <<>>
    /\ prefixes[1] # prefixes[2]
    /\ out[2] = ThreePart(target, prefixes[1], modifiers[1], 1)
    /\ \E i, j \in 1..Len(out) :
          /\ i < j
          /\ out[i] = TwoPart(target, prefixes[1], 6)
          /\ out[j] = ThreePart(target, prefixes[2], modifiers[1], 1)

\* C12 (as stated): with no prefixes or no modifiers the only candidate is
\* the target.
C12_Claim ==
    (pc = "gen" /\ raw = <<>> /\ (prefixes = <<>> \/ modifiers = <<>>))
        => out = <<target>>

\* C12 (amended): with no prefixes, whatever the modifiers, the only
\* candidate is the target.
C12_NoPrefixes ==
    (pc = "gen" /\ raw = <<>> /\ prefixes = <<>>) => out = <<target>>

\* C12 witness: a finished run with no prefixes and two modifiers.
C12_Witness ==
    /\ pc = "gen" /\ raw = <<>> /\ prefixes = <<>> /\ NM = 2
    /\ out = <<target>>

\* the target followed by the six two-part forms of each prefix
TwoPartOrder ==
    [i \in 1..(1 + 6 * NP) |->
        IF i = 1 THEN target
        ELSE TwoPart(target, prefixes[((i - 2) \div 6) + 1], ((i - 2) % 6) + 1)]

\* C13: with prefixes and no modifiers the candidates are the target and
\* then, prefix by prefix, the six two-part forms, each distinct string once
\* and nothing else.
C13_TwoPartOnly ==
    (pc = "gen" /\ modifiers = <<>> /\ prefixes # <<>>) =>
        /\ OutFollows(TwoPartOrder)
        /\ \A i, j \in 1..Len(out) : out[i] = out[j] => i = j
        /\ raw = <<>> => Range(out) = Range(TwoPartOrder)

\* C13 witness: target "a", prefixes ["b"], no modifiers: the seven
\* candidates a, a.b, a-b, ab, b.a, b-a, ba.
C13_Witness ==
    /\ pc = "gen" /\ raw = <<>> /\ modifiers = <<>>
    /\ target = <<"a">> /\ prefixes = << <<"b">> >>
    /\ out = << <<"a">>, <<"a", ".", "b">>, <<"a", "-", "b">>, <<"a", "b">>,
                <<"b", ".", "a">>, <<"b", "-", "a">>, <<"b", "a">> >>

\* C14: a repeated line of a wordlist changes nothing: the candidates are
\* those of the wordlists with their repeats taken out.
C14_RepeatsChangeNothing ==
    (pc = "gen" /\ raw = <<>>) =>
        out = FirstOccurrences(generate_buckets(target,
                                                FirstOccurrences(prefixes),
                                                FirstOccurrences(modifiers)))

\* C14 witness: prefixes [p, p] and modifiers [m, m]; the candidates are
\* those of prefixes [p] and modifiers [m], and there are more than one.
C14_Witness ==
    /\ pc = "gen" /\ raw = <<>>
    /\ NP = 2 /\ prefixes[1] = prefixes[2] /\ prefixes[1] # <<>>
    /\ NM = 2 /\ modifiers[1] = modifiers[2] /\ modifiers[1] # <<>>
    /\ Len(out) > 7
    /\ out = FirstOccurrences(generate_buckets(target, <<prefixes[1]>>, <<modifiers[1]>>))

\* C15: over a completed run every candidate has exactly one S3 probe and
\* exactly one GCS probe started, no probe is started for anything else, and
\* the operations are twice the candidates.
C15_Claim ==
    pc = "done" =>
        /\ \A k \in 1..Len(names), p \in {"s3", "gcp"} :
              Cardinality({ i \in 1..Len(started) : started[i] = Op(names[k], p) }) = 1
        /\ \A i \in 1..Len(started) : started[i].name \in Range(names)
        /\ Len(started) = 2 * Len(names)

\* the completions the scheduler has observed: the outcomes handed over, and
\* the task whose exception ended the run
Observed == Len(yielded) + (IF pc = "aborted" THEN 1 ELSE 0)

\* C16: the stream (the operations started, then those still pending) is
\* provider-first per candidate (S3 then GCS) whatever has been started, so
\* the operations started are always the front of it, in stream order;
\* the first min(B, N) are started together at the start and one more, the
\* next of the stream, per observed completion.
C16_AdmissionOrder ==
    LET stream == started \o coros
    IN /\ Len(stream) = 2 * Len(names)
       /\ \A k \in 1..Len(names) :
             /\ stream[2 * k - 1] = Op(names[k], "s3")
             /\ stream[2 * k] = Op(names[k], "gcp")
       /\ pc = "init" => started = <<>>
       /\ pc \notin {"init", "gen"} =>
             Len(started) = Min(Len(stream), bound + Observed)

\* C16 witness: main() is suspended, more operations than the initial fill
\* have been started and the stream still has operations.
C16_Witness ==
    /\ pc = "sleep" /\ bound >= 1
    /\ Len(started) > Min(bound, N) /\ coros # <<>>
    /\ started[Len(started)] = futures[Len(futures)].op

\* C17: the replacement of a completed task is not started before the
\* task's outcome has been delivered: while main() holds an outcome and has
\* not asked for the next, the operations started are the initial fill and
\* one for each outcome delivered before this one.
C17_Claim ==
    pc = "report" => Len(started) = Min(N, bound + Len(yielded) - 1)

\* C17, as the code does it: in one step of first_to_finish the done task found
\* leaves the window, then the next operation of the stream (if any) is
\* pulled, started and appended to the window, and only then is the task's
\* outcome delivered or its exception raised again.
C17_ReplacedThenDelivered ==
    [][(pc = "sleep" /\ pc' \in {"report", "aborted"}) =>
         LET f == futures[FirstDone(futures)]
         IN /\ \A j \in 1..Len(futures') : futures'[j].op # f.op
            /\ IF coros # <<>>
               THEN /\ started' = Append(started, Head(coros))
                    /\ futures'[Len(futures')] = Task(Head(coros))
                    /\ Len(futures') = Len(futures)
                    /\ coros' = Tail(coros)
               ELSE /\ started' = started
                    /\ Len(futures') = Len(futures) - 1
                    /\ coros' = coros
            /\ pc' = "report" =>
                  /\ yielded' = Append(yielded, [op |-> f.op, value |-> f.result.value,
                                                   done |-> TRUE])
                  /\ Len(started') = Min(N, bound + Len(yielded'))]_vars

\* C17 witness: main() holds the first outcome, of the second task of a
\* window of two, and the replacement is already started and in the window.
C17_Witness ==
    /\ pc = "report" /\ bound = 2 /\ Len(yielded) = 1
    /\ yielded[1].op = AllOps[2]
    /\ Len(started) = 3
    /\ Len(futures) = 2 /\ futures[1].op = AllOps[1] /\ futures[2] = Task(AllOps[3])

\* the operations of the model
OpSet == { Op(n, p) : n \in 1..MaxCands, p \in {"s3", "gcp"} }

\* C18: while main() keeps awaiting, every task that has completed is
\* eventually yielded.
C18_Claim ==
    \A o \in OpSet :
        (o \in Range(ready)) ~> (\E i \in 1..Len(yielded) : yielded[i].op = o)

\* C19: with a bound of two or more the run has not ended while a task of
\* the window has not completed.
C19_Claim ==
    (bound >= 2 /\ Ended) => \A i \in 1..Len(futures) : futures[i].done

\* C20: whenever the scheduler is suspended or main() has control, the
\* operations pulled from the stream are the outcomes yielded plus the
\* tasks of the window, so at most `bound` more than the outcomes yielded.
C20_Claim ==
    pc \in {"loop", "sleep", "report", "done", "aborted"} =>
        /\ N - Len(coros) = Len(yielded) + Len(futures)
        /\ N - Len(coros) <= Len(yielded) + bound

====
